---- MODULE Spec2Model ----
(***************************************************************************)
(* Model of src/scripts/main.js (Quizzards): the QuestionsList model, the  *)
(* QuizzardsView rendering surface with its delegated click listeners and  *)
(* the QuizzardsApp controller (startGame, checkAnswer, nextQuestion).     *)
(*                                                                         *)
(* Strings are sequences of one-character strings so that trim() and       *)
(* toLowerCase() are computed, not assumed.  Indices into the bank are     *)
(* 0-based as in the code; questions is a TLA+ sequence, so the code's     *)
(* questions[i] is questions[i + 1] here.                                  *)
(*                                                                         *)
(* Line 210 of main.js reads                                               *)
(*     } else (userAnswer.value.length >= 1) {                             *)
(* The guard is modelled as written and as evaluated: userAnswer is the    *)
(* string returned by trim() (line 201), a string has no property named    *)
(* value, so userAnswer.value is undefined and reading .length of it       *)
(* throws a TypeError before the block on line 211 can run.                *)
(***************************************************************************)
EXTENDS Integers, Sequences, FiniteSets, TLC

\* ------------------------------------------------------------------ bounds
MaxN == 3          \* longest question bank explored
MaxInputLen == 3   \* longest text typed into the #answer field
MaxRegistrations == 2  \* most registrations of one (event, selector) pair

\* ----------------------------------------------------------------- strings
Chars == {"a", "A", "b", " "}

\* Answers a bank may store: a clean one and one with leading whitespace.
StoredAnswers == {<<"A">>, <<" ", "a">>}

\* Question texts by position in the bank.
QuestionText(i) == <<"Q", i>>

\* String.prototype.toLowerCase on one character / on a string.
LowerChar(c) == IF c = "A" THEN "a" ELSE c

toLowerCase(s) == [k \in 1..Len(s) |-> LowerChar(s[k])]

IsWhiteSpace(c) == c = " "

\* String.prototype.trim: drop leading and trailing white space.
RECURSIVE trimStart(_)
trimStart(s) ==
    IF s # <<>> /\ IsWhiteSpace(Head(s)) THEN trimStart(Tail(s)) ELSE s

RECURSIVE trimEnd(_)
trimEnd(s) ==
    IF s # <<>> /\ IsWhiteSpace(s[Len(s)])
    THEN trimEnd(SubSeq(s, 1, Len(s) - 1))
    ELSE s

trim(s) == trimEnd(trimStart(s))

\* ------------------------------------------------------------------ models
QuestionAnswer(question, answer) == [question |-> question, answer |-> answer]

\* new QuestionsList(...args): every argument here is a two value array.
QuestionsList(args) ==
    [k \in 1..Len(args) |-> QuestionAnswer(args[k][1], args[k][2])]

RECURSIVE AnswerLists(_)
AnswerLists(n) ==
    IF n = 0 THEN {<<>>}
    ELSE {Append(l, a) : l \in AnswerLists(n - 1), a \in StoredAnswers}

\* The banks explored: lengths 0..MaxN, answers drawn from StoredAnswers.
Banks ==
    UNION {{QuestionsList([k \in 1..n |-> <<QuestionText(k), l[k]>>]) :
               l \in AnswerLists(n)} : n \in 0..MaxN}

\* ------------------------------------------------------------------- state
VARIABLES
    questions,   \* QuizzardsApp.questions, the bank
    state,       \* QuizzardsApp.state: [current, score]
    screen,      \* content of the app container: [kind, arg]
    answer,      \* value of the #answer input of a question screen
    event,       \* the last user event: [type, target]
    out,         \* render commands issued while handling the last event
    errors,      \* exceptions thrown while handling the last event
    before,      \* state and screen when the last event arrived
    submitted,   \* text the last event's checkAnswer read from #answer
    listeners,   \* click listeners added to the app container, in order
    calls,       \* controller handlers invoked by the last event, in order
    reads,       \* bank indices read while handling the last event
    shown,       \* questions rendered since the last Start, in order
    matched,     \* indices of this run submitted with a matching text
    graded       \* indices of this run whose comparison (line 205) ran

vars ==
    <<questions, state, screen, answer, event, out, errors, before,
      submitted, listeners, calls, reads, shown, matched, graded>>

Snapshot(st, scr) == [state |-> st, screen |-> scr]

Screen(kind, arg) == [kind |-> kind, arg |-> arg]

\* Ids of the elements each template puts in the app container.
Elements(scr) ==
    CASE scr.kind = "first"    -> {"p", "play"}
      [] scr.kind = "question" -> {"p", "answer-form", "answer", "check-answer"}
      [] scr.kind = "result"   -> {"p", "next"}
      [] scr.kind = "score"    -> {"p", "play"}

\* this.app.querySelectorAll('#' + id)
querySelectorAll(scr, id) == Elements(scr) \cap {id}

\* -------------------------------------------------------------------- view
\* The world a listener runs in: w.detached tells that the container was
\* re-rendered since the event was dispatched, so that event.target is no
\* longer an element of the container.
World(st, scr, ans) ==
    [state |-> st, screen |-> scr, answer |-> ans, detached |-> FALSE,
     out |-> <<>>, errors |-> <<>>, calls |-> <<>>, reads |-> <<>>]

printTemplate(w, scr) ==
    [w EXCEPT !.screen = scr, !.answer = <<>>, !.detached = TRUE,
              !.out = Append(@, scr)]

printFirstPage(w, amount) == printTemplate(w, Screen("first", amount))

printQuestion(w, question) == printTemplate(w, Screen("question", question))

printResult(w, result) == printTemplate(w, Screen("result", result))

printScore(w, score) == printTemplate(w, Screen("score", score))

throw(w, error) == [w EXCEPT !.errors = Append(@, error)]

\* An evaluation of this.questions[index].
readBank(w, index) == [w EXCEPT !.reads = Append(@, index)]

\* -------------------------------------------------------------- controller
Correct == "Correct! You might not be as dumb as I thought you were."
Wrong == "Wrong human, try again!"

Undefined == "undefined"

\* userAnswer.value (line 210): userAnswer is a string, which has no such
\* property.
PropertyValue(userAnswer) == Undefined

\* startGame without the reset of the score on line 185.
startGame_keepScore(w) ==
    LET reset == [w EXCEPT !.state.current = 0]
        read == readBank(reset, reset.state.current)
    IN  IF reset.state.current + 1 \in DOMAIN questions
        THEN printQuestion(read, questions[reset.state.current + 1].question)
        ELSE throw(read, "TypeError")

startGame(w) ==
    LET reset == [w EXCEPT !.state = [current |-> 0, score |-> 0]]
        read == readBank(reset, reset.state.current)
    IN  IF reset.state.current + 1 \in DOMAIN questions
        THEN printQuestion(read, questions[reset.state.current + 1].question)
        ELSE throw(read, "TypeError")

\* checkAnswer with the guard of line 203 as current >= questions.length.
checkAnswer_lengthGuard(w) ==
    LET current == w.state.current
        score == w.state.score
        userAnswer == trim(w.answer)
        read == readBank(w, current)
    IN  IF current >= Len(questions)
        THEN printScore(w, score)
        ELSE IF toLowerCase(userAnswer) = toLowerCase(questions[current + 1].answer)
        THEN printResult([read EXCEPT !.state.score = @ + 1], Correct)
        ELSE IF PropertyValue(userAnswer) = Undefined
        THEN throw(read, "TypeError")
        ELSE IF Len(PropertyValue(userAnswer)) >= 1
        THEN printResult(read, Wrong)
        ELSE read

\* checkAnswer moving on to the next index itself after a correct answer.
checkAnswer_advances(w) ==
    LET current == w.state.current
        score == w.state.score
        userAnswer == trim(w.answer)
        read == readBank(w, current)
    IN  IF current >= Len(questions) - 1
        THEN printScore(w, score)
        ELSE IF toLowerCase(userAnswer) = toLowerCase(questions[current + 1].answer)
        THEN printResult([read EXCEPT !.state.score = @ + 1, !.state.current = @ + 1], Correct)
        ELSE IF PropertyValue(userAnswer) = Undefined
        THEN throw(read, "TypeError")
        ELSE IF Len(PropertyValue(userAnswer)) >= 1
        THEN printResult(read, Wrong)
        ELSE read

checkAnswer(w) ==
    LET current == w.state.current
        score == w.state.score
        userAnswer == trim(w.answer)
        read == readBank(w, current)
    IN  IF current >= Len(questions) - 1
        THEN printScore(w, score)
        ELSE IF toLowerCase(userAnswer) = toLowerCase(questions[current + 1].answer)
        THEN printResult([read EXCEPT !.state.score = @ + 1], Correct)
        ELSE IF PropertyValue(userAnswer) = Undefined
        THEN throw(read, "TypeError")
        ELSE IF Len(PropertyValue(userAnswer)) >= 1
        THEN printResult(read, Wrong)
        ELSE read

\* nextQuestion without the increment on line 219.
nextQuestion_noIncrement(w) ==
    LET read == readBank(w, w.state.current)
    IN  IF w.state.current + 1 \in DOMAIN questions
        THEN printQuestion(read, questions[w.state.current + 1].question)
        ELSE throw(read, "TypeError")

nextQuestion(w) ==
    LET inc == [w EXCEPT !.state.current = @ + 1]
        read == readBank(inc, inc.state.current)
    IN  IF inc.state.current + 1 \in DOMAIN questions
        THEN printQuestion(read, questions[inc.state.current + 1].question)
        ELSE throw(read, "TypeError")

\* The callbacks init() hands to delegateListener (lines 175-177).
Call(callback, w) ==
    LET called == [w EXCEPT !.calls = Append(@, callback)]
    IN  CASE callback = "startGame"    -> startGame(called)
          [] callback = "checkAnswer"  -> checkAnswer(called)
          [] callback = "nextQuestion" -> nextQuestion(called)

\* delegateListener without the test of line 137: the callback always runs.
delegateListener_always(w, target, targetSelector, callback) ==
    Call(callback, w)

\* delegateListener testing that the selector finds something, not that it
\* finds event.target.
delegateListener_selectorOnly(w, target, targetSelector, callback) ==
    IF querySelectorAll(w.screen, targetSelector) # {}
    THEN Call(callback, w)
    ELSE w

\* The listener delegateListener installs: run callback when the event's
\* target is among the elements the selector finds now.
delegateListener(w, target, targetSelector, callback) ==
    IF ~w.detached /\ target \in querySelectorAll(w.screen, targetSelector)
    THEN Call(callback, w)
    ELSE w

Listener(targetSelector, callback) ==
    [targetSelector |-> targetSelector, callback |-> callback]

\* The delegateListener calls of init() (lines 175-177), in order.
Registrations ==
    <<Listener("play", "startGame"),
      Listener("check-answer", "checkAnswer"),
      Listener("next", "nextQuestion")>>

\* The listeners the container holds when every call of Registrations is
\* made times times: addEventListener gets a new arrow function on every
\* call (line 132), so every call adds a listener.
Registered(times) ==
    [k \in 1..(times * Len(Registrations)) |->
        Registrations[((k - 1) \div times) + 1]]

\* The listeners of the container run in the order they were added.
RECURSIVE runListeners(_, _, _)
runListeners(w, target, ls) ==
    IF ls = <<>> THEN w
    ELSE runListeners(
             delegateListener(w, target, Head(ls).targetSelector, Head(ls).callback),
             target, Tail(ls))

\* A click on target bubbles to the app container.
dispatchClick(w, target) == runListeners(w, target, listeners)

\* The questions among the render commands of one event.
RECURSIVE QuestionsIn(_)
QuestionsIn(commands) ==
    IF commands = <<>> THEN <<>>
    ELSE IF Head(commands).kind = "question"
         THEN <<Head(commands).arg>> \o QuestionsIn(Tail(commands))
         ELSE QuestionsIn(Tail(commands))

\* ----------------------------------------------------------------- actions
\* State after the constructors and init(): the first page is printed.
Loaded ==
    /\ questions \in Banks
    /\ state = [current |-> 0, score |-> 0]
    /\ screen = Screen("first", Len(questions))
    /\ answer = <<>>
    /\ event = [type |-> "load", target |-> "app"]
    /\ out = <<Screen("first", Len(questions))>>
    /\ errors = <<>>
    /\ before = Snapshot(state, screen)
    /\ submitted = <<>>
    /\ calls = <<>>
    /\ reads = <<>>
    /\ shown = <<>>
    /\ matched = {}
    /\ graded = {}

Init ==
    /\ listeners = Registered(1)
    /\ Loaded

\* The same application on a view whose client repeated its registrations.
InitRepeated ==
    /\ \E times \in 1..MaxRegistrations : listeners = Registered(times)
    /\ Loaded

\* A user click on the element with the given id of the current screen.
Click(target) ==
    /\ target \in Elements(screen)
    /\ LET w == dispatchClick(World(state, screen, answer), target)
       IN  /\ state' = w.state
           /\ screen' = w.screen
           /\ answer' = w.answer
           /\ out' = w.out
           /\ errors' = w.errors
           /\ calls' = w.calls
           /\ reads' = w.reads
           /\ shown' = IF "startGame" \in {w.calls[k] : k \in DOMAIN w.calls}
                        THEN QuestionsIn(w.out)
                        ELSE shown \o QuestionsIn(w.out)
    /\ event' = [type |-> "click", target |-> target]
    /\ before' = Snapshot(state, screen)
    /\ UNCHANGED <<questions, listeners>>

\* The user edits the #answer field; no listener is registered for it.
Edit(text) ==
    /\ "answer" \in Elements(screen)
    /\ answer' = text
    /\ event' = [type |-> "input", target |-> "answer"]
    /\ out' = <<>>
    /\ errors' = <<>>
    /\ before' = Snapshot(state, screen)
    /\ submitted' = <<>>
    /\ calls' = <<>>
    /\ reads' = <<>>
    /\ UNCHANGED <<questions, state, screen, listeners, shown, matched, graded>>

\* One more character at the end of the field.
TypeChar ==
    \E c \in Chars :
        /\ Len(answer) < MaxInputLen
        /\ Edit(Append(answer, c))

\* The last character of the field removed.
DeleteChar ==
    /\ answer # <<>>
    /\ Edit(SubSeq(answer, 1, Len(answer) - 1))

ClickPlay ==
    /\ Click("play")
    /\ submitted' = <<>>
    /\ matched' = {}
    /\ graded' = {}

ClickCheckAnswer ==
    /\ Click("check-answer")
    /\ submitted' = answer
    /\ matched' =
          IF /\ state.current + 1 \in DOMAIN questions
             /\ toLowerCase(trim(answer)) = toLowerCase(questions[state.current + 1].answer)
          THEN matched \cup {state.current}
          ELSE matched
    /\ graded' =
          IF state.current >= Len(questions) - 1
          THEN graded
          ELSE graded \cup {state.current}

ClickNext ==
    /\ Click("next")
    /\ submitted' = <<>>
    /\ UNCHANGED <<matched, graded>>

\* A click on an element of the screen that is not one of its buttons.
ClickElsewhere ==
    \E target \in Elements(screen) \ {"play", "check-answer", "next"} :
        /\ Click(target)
        /\ submitted' = <<>>
        /\ UNCHANGED <<matched, graded>>

Next ==
    \/ TypeChar
    \/ DeleteChar
    \/ ClickPlay
    \/ ClickCheckAnswer
    \/ ClickNext
    \/ ClickElsewhere

Spec == Init /\ [][Next]_vars

\* The application on a view with repeated registrations.
SpecRepeated == InitRepeated /\ [][Next]_vars

\* The user keeps acting: keeps clicking the button the screen offers and
\* keeps editing the answer field while there is one.
FairSpec ==
    /\ Spec
    /\ WF_vars(ClickPlay)
    /\ WF_vars(ClickCheckAnswer)
    /\ WF_vars(ClickNext)
    /\ WF_vars(TypeChar \/ DeleteChar)

\* ------------------------------------------------------------------ claims
N == Len(questions)

IsClick(target) == event.type = "click" /\ event.target = target

\* The last event was a Start, a Submit or an Advance.
IsStart == IsClick("play")
IsSubmit == IsClick("check-answer")
IsAdvance == IsClick("next")

\* The stored answer of the question with (0-based) index i.
StoredAnswer(i) == questions[i + 1].answer

\* Letter-case variants and surrounding white space, stated without trim
\* and toLowerCase.
SameLetter(c, d) == c = d \/ {c, d} = {"a", "A"}

IsCaseVariant(text, stored) ==
    /\ Len(text) = Len(stored)
    /\ \A k \in 1..Len(stored) : SameLetter(text[k], stored[k])

IsBlank(text) == \A k \in 1..Len(text) : text[k] = " "

\* text is stored in some letter case, with or without white space around.
IsVariant(text, stored) ==
    \E lead \in 0..Len(text) :
        /\ lead + Len(stored) <= Len(text)
        /\ IsBlank(SubSeq(text, 1, lead))
        /\ IsCaseVariant(SubSeq(text, lead + 1, lead + Len(stored)), stored)
        /\ IsBlank(SubSeq(text, lead + Len(stored) + 1, Len(text)))

\* A stored answer without white space at either end.
IsClean(stored) ==
    stored # <<>> /\ stored[1] # " " /\ stored[Len(stored)] # " "

\* The submission of the last Submit matched the stored answer.
SubmissionMatches ==
    toLowerCase(trim(submitted)) = toLowerCase(StoredAnswer(before.state.current))

\* C1 as stated: on a bank of length N >= 1 every reachable run state has
\* 0 <= score <= currentIndex <= N.
C1_ScoreAtMostIndex ==
    N >= 1 => /\ 0 <= state.score
              /\ state.score <= state.current
              /\ state.current <= N

\* C1 as amended: on a bank of length N >= 1 every reachable run state has
\* 0 <= score <= currentIndex + 1 and currentIndex <= N: the score may lead
\* the index by one, while the result of the current question is shown.
C1_ScoreAtMostIndexPlusOne ==
    N >= 1 => /\ 0 <= state.score
              /\ state.score <= state.current + 1
              /\ state.current <= N

\* A correct answer was just graded: the score leads the index by one.
C1_Witness ==
    /\ IsSubmit
    /\ screen.kind = "result"
    /\ state.current >= 1
    /\ state.score = state.current + 1

\* C2: a Submit on the last question (index N-1) is graded like any other
\* (score + 1 when the submission matches, unchanged otherwise) and renders
\* a result screen; the score screen never comes up directly by that Submit.
C2_LastSubmitGradedAndShown ==
    (N >= 1 /\ IsSubmit /\ before.state.current = N - 1) =>
        /\ screen.kind = "result"
        /\ state.score = before.state.score + (IF SubmissionMatches THEN 1 ELSE 0)

\* C3: for every index i in 0..N-1, a Submit from the question screen of i
\* whose text is a letter-case variant of the (clean) stored answer of i,
\* with or without surrounding white space, shows the result of a correct
\* answer at index i and increases the score by exactly 1.
C3_VariantIsCorrect ==
    (/\ N >= 1
     /\ IsSubmit
     /\ IsClean(StoredAnswer(before.state.current))
     /\ IsVariant(submitted, StoredAnswer(before.state.current))) =>
        /\ screen = Screen("result", Correct)
        /\ state.current = before.state.current
        /\ state.score = before.state.score + 1

\* C4: the score the score screen shows is the number of questions of the
\* run whose submission matched the stored answer.
C4_ShownScoreCountsMatches ==
    (N >= 1 /\ screen.kind = "score") => screen.arg = Cardinality(matched)

C6_StartResets ==
    (N >= 1 /\ IsStart) =>
        /\ state = [current |-> 0, score |-> 0]
        /\ screen = Screen("question", questions[1].question)
        /\ out = <<screen>>

\* A Start taken from the score screen of a run that left a positive score
\* and a positive index.
C6_Witness ==
    /\ IsStart
    /\ before.screen.kind = "score"
    /\ before.state.score > 0
    /\ before.state.current > 0
    /\ state = [current |-> 0, score |-> 0]
    /\ screen.kind = "question"

\* C7: every Start, Submit and Advance issues exactly one render command.
C7_OneRenderPerTransition ==
    (N >= 1 /\ (IsStart \/ IsSubmit \/ IsAdvance)) => Len(out) = 1

\* C8: a Submit whose trimmed text does not match the stored answer, the
\* empty text included, throws nothing, leaves the score unchanged and
\* shows the failure message as the result of the same index.
C8_MismatchShowsFailure ==
    (N >= 1 /\ IsSubmit /\ ~SubmissionMatches) =>
        /\ errors = <<>>
        /\ state = before.state
        /\ screen = Screen("result", Wrong)

\* C9: within a run the score changes only by a Submit, by +1 and only when
\* the submission matches; an Advance leaves it unchanged; and no question
\* index is graded more than once between two Starts.
C9_GradedOnce ==
    [][/\ (N >= 1 /\ event'.type = "click" /\ event'.target = "next") =>
              state'.score = state.score
       /\ (N >= 1 /\ event'.type = "input") => state'.score = state.score
       /\ (N >= 1 /\ event'.type = "click" /\ event'.target = "check-answer") =>
              /\ state'.score \in {state.score, state.score + 1}
              /\ state'.score = state.score + 1 =>
                     toLowerCase(trim(answer)) = toLowerCase(StoredAnswer(state.current))
              /\ state.current < N - 1 => state.current \notin graded
      ]_vars

\* C10: with an empty bank no render command is ever issued and no handler
\* ever reads a question that does not exist.
C10_EmptyBankFailsFast ==
    N = 0 => /\ out = <<>>
             /\ errors = <<>>
             /\ screen.kind \notin {"first", "question"}

\* The handlers the last event invoked, as a set.
Called == {calls[k] : k \in DOMAIN calls}

\* The button a screen offers: the element whose click is the action that
\* is valid in the state the screen stands for.
OwnButton(scr) ==
    CASE scr.kind \in {"first", "score"} -> "play"
      [] scr.kind = "question"           -> "check-answer"
      [] scr.kind = "result"             -> "next"

\* C11: startGame runs only from the first page or the score screen,
\* checkAnswer only from a question screen, nextQuestion only from a result
\* screen; a click that is not on the button of the current screen invokes
\* no handler and leaves run state and screen as they were.
C11_ActionsOnlyInOwnState ==
    event.type = "click" =>
        /\ "startGame" \in Called => before.screen.kind \in {"first", "score"}
        /\ "checkAnswer" \in Called => before.screen.kind = "question"
        /\ "nextQuestion" \in Called => before.screen.kind = "result"
        /\ event.target # OwnButton(before.screen) =>
               /\ calls = <<>>
               /\ out = <<>>
               /\ state = before.state
               /\ screen = before.screen

\* A click on the #answer field of the second or a later question: all
\* three listeners ran and none called its handler.
C11_Witness ==
    /\ event = [type |-> "click", target |-> "answer"]
    /\ calls = <<>>
    /\ state.current >= 1
    /\ state = before.state
    /\ screen = before.screen

\* C12: on a bank of length N >= 1 every evaluation of questions[current]
\* by startGame, checkAnswer or nextQuestion has 0 <= current <= N - 1.
C12_BankReadsInRange ==
    N >= 1 => \A k \in DOMAIN reads : 0 <= reads[k] /\ reads[k] <= N - 1

\* nextQuestion read the last question of a bank of two or more.
C12_Witness ==
    /\ N >= 2
    /\ IsAdvance
    /\ calls = <<"nextQuestion">>
    /\ reads = <<N - 1>>

\* The comparison policy, stated without trim and toLowerCase: text is some
\* white space, a core without white space at either end, some white space,
\* and the core is the stored answer (as stored, untrimmed) up to letter case.
MatchesPolicy(text, stored) ==
    \E lead \in 0..Len(text) : \E len \in 0..(Len(text) - lead) :
        LET core == SubSeq(text, lead + 1, lead + len)
        IN  /\ IsBlank(SubSeq(text, 1, lead))
            /\ IsBlank(SubSeq(text, lead + len + 1, Len(text)))
            /\ core # <<>> => core[1] # " " /\ core[len] # " "
            /\ IsCaseVariant(core, stored)

\* The last Submit was graded correct.
GradedCorrect ==
    /\ screen = Screen("result", Correct)
    /\ state.score = before.state.score + 1

\* C13: a submission is graded correct if and only if it matches the stored
\* answer under the comparison policy (submission trimmed, both case-folded,
\* stored answer not trimmed); a stored answer with surrounding white space
\* is never matched.
C13_GradedCorrectIffPolicy ==
    (N >= 1 /\ IsSubmit) =>
        /\ GradedCorrect <=> MatchesPolicy(submitted, StoredAnswer(before.state.current))
        /\ ~IsClean(StoredAnswer(before.state.current)) => ~GradedCorrect

\* C14: however many times a handler was registered for one (event,
\* selector) pair, one click on the matching element invokes it exactly
\* once.
C14_RepeatedRegistrationIdempotent ==
    (event.type = "click" /\ event.target = OwnButton(before.screen)) =>
        Len(calls) = 1

\* C15: one click causes at most one controller transition: the three
\* listeners all run, and after a handler replaced the screen no later
\* listener calls its handler for the same click.
C15_OneTransitionPerClick ==
    event.type = "click" =>
        /\ Len(calls) <= 1
        /\ Len(out) <= 1
        /\ calls # <<>> =>
               \E k \in DOMAIN listeners :
                   /\ listeners[k].callback = calls[1]
                   /\ listeners[k].targetSelector = event.target

\* checkAnswer, called by the second listener, put a result screen with a
\* #next button in the container; the third listener (#next) ran after it
\* and did not call nextQuestion.
C15_Witness ==
    /\ IsSubmit
    /\ calls = <<"checkAnswer">>
    /\ screen.kind = "result"
    /\ querySelectorAll(screen, "next") # {}
    /\ state.current = before.state.current

\* C16: within a run the k-th question screen shows the question at index
\* k - 1, no question is skipped or repeated, and when the score screen
\* appears every index 0..N-1 has been shown exactly once.
C16_QuestionsInBankOrder ==
    N >= 1 =>
        /\ Len(shown) <= N
        /\ \A k \in DOMAIN shown : shown[k] = questions[k].question
        /\ \A j, k \in DOMAIN shown : shown[j] = shown[k] => j = k
        /\ screen.kind = "question" =>
               /\ Len(shown) = state.current + 1
               /\ screen.arg = shown[Len(shown)]
        /\ screen.kind = "score" => Len(shown) = N

\* The score screen of a run over a bank of three or more questions.
C16_Witness ==
    /\ N >= 3
    /\ screen.kind = "score"
    /\ Len(shown) = N
    /\ shown[N] = questions[N].question

\* C17: on a bank of length N >= 1, when the user keeps clicking the button
\* the screen offers, every run that shows a question eventually shows the
\* score screen, and the score screen offers a further Start.
C17_RunReachesScore ==
    /\ [](screen.kind = "score" => "play" \in Elements(screen))
    /\ (N >= 1 /\ screen.kind = "question") ~> (screen.kind = "score")

\* C18: currentIndex changes only by a Start (to 0) and by an Advance (by
\* exactly +1); a Submit leaves it unchanged on every branch; no step
\* changes the question bank.
C18_IndexFrame ==
    [][/\ questions' = questions
       /\ state'.current # state.current =>
              \/ event'.target = "play" /\ state'.current = 0
              \/ event'.target = "next" /\ state'.current = state.current + 1
       /\ (event'.type = "click" /\ event'.target = "play") => state'.current = 0
       /\ (event'.type = "click" /\ event'.target = "next") =>
              state'.current = state.current + 1
       /\ (event'.type = "click" /\ event'.target = "check-answer") =>
              state'.current = state.current
      ]_vars

\* A Submit on the last-question branch, after at least one Advance, left
\* the index where it was.
C18_Witness ==
    /\ IsSubmit
    /\ screen.kind = "score"
    /\ state.current >= 1
    /\ state.current = before.state.current

====
